---- MODULE Spec2Model ----
(***************************************************************************)
(* KVDBManager (engine/source/kvdb/src/kvdbManager.cpp): the database      *)
(* lifecycle manager over one RocksDB instance, its map of column family   *)
(* handles, and the handler collection that counts live handlers per       *)
(* (database, scope).                                                      *)
(*                                                                         *)
(* The manager takes no lock of its own, so every access to a shared       *)
(* object (the handle map, the handler collection, the engine) is one step *)
(* of the calling thread and the steps of concurrent callers interleave.   *)
(* The handler collection and the engine serialise their own calls.        *)
(***************************************************************************)
EXTENDS Integers, FiniteSets, Sequences, Bags, TLC

VARIABLES
    m_isInitialized,          \* bool m_isInitialized
    m_pRocksDB,               \* TRUE iff m_pRocksDB points to an open engine
    m_mapCFHandles,           \* name -> column family handle
    m_pDefaultCFHandle,       \* handle of the default column family
    m_kvdbHandlerCollection,  \* database -> (scope -> count)
    store,                    \* engine: names of the column families of the store
    data,                     \* engine: column family name -> (key -> stored value)
    handlers,                 \* bag of live KVDBHandler objects [db, scope, cf]
    threads,                  \* the caller threads the host process runs
    pc,                       \* per thread: position inside its current call
    call,                     \* per thread: the call and its arguments
    loc,                      \* per thread: local variables of the call
    res                       \* per thread: value returned by the call

vars == <<m_isInitialized, m_pRocksDB, m_mapCFHandles, m_pDefaultCFHandle,
          m_kvdbHandlerCollection, store, data, handlers,
          threads, pc, call, loc, res>>

mgrVars == <<m_isInitialized, m_pRocksDB, m_mapCFHandles, m_pDefaultCFHandle>>
engVars == <<store, data>>

----------------------------------------------------------------------------
(* Bounds and input sets *)

MaxHandlers == 2

kDefaultColumnFamilyName == "default"
DBNames == {"n", "m"}
Names == DBNames \cup {kDefaultColumnFamilyName}
Scopes == {"s1", "s2"}
Threads == {"t1", "t2"}

----------------------------------------------------------------------------
(* Finite maps *)

EmptyMap == << >>

MapPut(f, k, v) == [x \in (DOMAIN f) \cup {k} |-> IF x = k THEN v ELSE f[x]]

MapErase(f, k) == [x \in (DOMAIN f) \ {k} |-> f[x]]

Range(f) == {f[x] : x \in DOMAIN f}

\* std::map::insert / emplace: keeps the element already stored under the key
MapInsert(f, k, v) == IF k \in DOMAIN f THEN f ELSE MapPut(f, k, v)

----------------------------------------------------------------------------
(* Handler collection (KVDBHandlerCollection, RefCounter) *)

addKVDBHandler(coll, db, scope) ==
    LET refs == IF db \in DOMAIN coll THEN coll[db] ELSE EmptyMap
        cnt  == IF scope \in DOMAIN refs THEN refs[scope] ELSE 0
    IN  MapPut(coll, db, MapPut(refs, scope, cnt + 1))

removeKVDBHandler(coll, db, scope) ==
    IF db \notin DOMAIN coll \/ scope \notin DOMAIN coll[db]
    THEN coll
    ELSE LET refs == IF coll[db][scope] > 1
                     THEN MapPut(coll[db], scope, coll[db][scope] - 1)
                     ELSE MapErase(coll[db], scope)
         IN  IF DOMAIN refs = {} THEN MapErase(coll, db) ELSE MapPut(coll, db, refs)

getDBNames(coll) == DOMAIN coll

getRefMap(coll, db) == IF db \in DOMAIN coll THEN coll[db] ELSE EmptyMap

\* RefCounter::addRef(name, times)
addRef(refs, name, times) ==
    MapPut(refs, name, (IF name \in DOMAIN refs THEN refs[name] ELSE 0) + times)

----------------------------------------------------------------------------
(* Engine: column family handles *)

\* A rocksdb::ColumnFamilyHandle* is modelled by what it points to: nothing
\* ("null"), the live column family of a name ("live"), a column family the
\* engine has dropped ("dropped"), or an object that was destroyed with its
\* DB ("destroyed", a dangling pointer).  The code never compares two
\* handles, so handles to dead objects of one name are interchangeable.
NullHandle == [name |-> "", st |-> "null"]
LiveHandle(x) == [name |-> x, st |-> "live"]

\* the value an out-of-bounds read of a vector of handles yields
WildHandle == [name |-> "", st |-> "wild"]

\* DropColumnFamily on the column family x: what a pointer h points to afterwards
Dropped(h, x) == IF h.st = "live" /\ h.name = x THEN [h EXCEPT !.st = "dropped"] ELSE h

\* DestroyColumnFamilyHandle on every handle and delete of the DB: what a
\* pointer h points to afterwards
Destroyed(h) == IF h.st \in {"live", "dropped"} THEN [h EXCEPT !.st = "destroyed"] ELSE h

\* the bag B of handlers after DropColumnFamily on the column family x
DroppedHandlers(B, x) ==
    LET Upd(h) == [h EXCEPT !.cf = Dropped(h.cf, x)]
    IN  [g \in {Upd(h) : h \in BagToSet(B)} |->
            BagCardinality([h \in {k \in BagToSet(B) : Upd(k) = g} |-> B[h]])]

\* the bag B of handlers after every handle and the DB are destroyed
DestroyedHandlers(B) ==
    LET Upd(h) == [h EXCEPT !.cf = Destroyed(h.cf)]
    IN  [g \in {Upd(h) : h \in BagToSet(B)} |->
            BagCardinality([h \in {k \in BagToSet(B) : Upd(k) = g} |-> B[h]])]

\* order in which the engine lists the column families of a store
NameSeq == <<kDefaultColumnFamilyName, "n", "m">>

SeqIndex(sq, x) == CHOOSE i \in 1..Len(sq) : sq[i] = x

----------------------------------------------------------------------------
(* Thread-local state *)

NoCall == [op |-> "none", name |-> "", scope |-> "", path |-> ""]
NoLoc  == [names |-> {}, info |-> EmptyMap, cf |-> NullHandle, entries |-> << >>]
NoRes  == [kind |-> "none", status |-> "", count |-> 0, val |-> EmptyMap, info |-> EmptyMap]

Result(kind) == [NoRes EXCEPT !.kind = kind]

\* base::Error carrying the status text of the engine
EngineError(status) == [NoRes EXCEPT !.kind = "engine", !.status = status]

Idle(t) == pc[t] = "idle"

\* the host process dies (a null or wild pointer is dereferenced)
Crash == pc' = [t \in Threads |-> "crashed"]

Init ==
    /\ m_isInitialized = FALSE
    /\ m_pRocksDB = FALSE
    /\ m_mapCFHandles = EmptyMap
    /\ m_pDefaultCFHandle = NullHandle
    /\ m_kvdbHandlerCollection = EmptyMap
    /\ store \in {{}} \cup {S \cup {kDefaultColumnFamilyName} : S \in SUBSET DBNames}
    /\ data = [x \in Names |-> EmptyMap]
    /\ handlers = EmptyBag
    /\ threads \in {{"t1"}, Threads}
    /\ pc = [t \in Threads |-> "idle"]
    /\ call = [t \in Threads |-> NoCall]
    /\ loc = [t \in Threads |-> NoLoc]
    /\ res = [t \in Threads |-> NoRes]

----------------------------------------------------------------------------
(* initialize / finalize *)

\* initializeMainDB without the test of line 104: the default column family
\* is put in the map like the others
initializeMainDB_ExposeDefault ==
    LET columnNames   == SelectSeq(NameSeq, LAMBDA x : x \in store)
        hasDefaultCF  == kDefaultColumnFamilyName \in store
        cfDescriptors == IF hasDefaultCF THEN columnNames
                         ELSE Append(columnNames, kDefaultColumnFamilyName)
        opened        == [x \in Range(cfDescriptors) |-> LiveHandle(x)]
    IN  /\ m_pRocksDB' = TRUE
        /\ store' = Range(cfDescriptors)
        /\ m_mapCFHandles' =
               [x \in (DOMAIN m_mapCFHandles) \cup Range(cfDescriptors) |->
                   IF x \in DOMAIN m_mapCFHandles THEN m_mapCFHandles[x] ELSE opened[x]]
        /\ m_pDefaultCFHandle' = opened[kDefaultColumnFamilyName]

\* initializeMainDB whose loop of lines 101-112 starts at the second descriptor
initializeMainDB_SkipFirst ==
    LET columnNames   == SelectSeq(NameSeq, LAMBDA x : x \in store)
        hasDefaultCF  == kDefaultColumnFamilyName \in store
        cfDescriptors == IF hasDefaultCF THEN columnNames
                         ELSE Append(columnNames, kDefaultColumnFamilyName)
        recorded      == Range(Tail(cfDescriptors))
    IN  /\ m_pRocksDB' = TRUE
        /\ store' = Range(cfDescriptors)
        /\ m_mapCFHandles' =
               [x \in (DOMAIN m_mapCFHandles) \cup (recorded \ {kDefaultColumnFamilyName}) |->
                   IF x \in DOMAIN m_mapCFHandles THEN m_mapCFHandles[x] ELSE LiveHandle(x)]
        /\ m_pDefaultCFHandle' = IF kDefaultColumnFamilyName \in recorded
                                 THEN LiveHandle(kDefaultColumnFamilyName)
                                 ELSE m_pDefaultCFHandle

\* initializeMainDB: list the column families of the store, add the default
\* one if it is not listed, open the DB and record the handles
initializeMainDB ==
    LET columnNames   == SelectSeq(NameSeq, LAMBDA x : x \in store)
        hasDefaultCF  == kDefaultColumnFamilyName \in store
        cfDescriptors == IF hasDefaultCF THEN columnNames
                         ELSE Append(columnNames, kDefaultColumnFamilyName)
        cfHandles     == [i \in 1..Len(cfDescriptors) |-> LiveHandle(cfDescriptors[i])]
        opened        == [x \in Range(cfDescriptors) |-> cfHandles[SeqIndex(cfDescriptors, x)]]
        public        == Range(cfDescriptors) \ {kDefaultColumnFamilyName}
    IN  /\ m_pRocksDB' = TRUE
        /\ store' = Range(cfDescriptors)
        /\ m_mapCFHandles' =
               [x \in (DOMAIN m_mapCFHandles) \cup public |->
                   IF x \in DOMAIN m_mapCFHandles THEN m_mapCFHandles[x] ELSE opened[x]]
        /\ m_pDefaultCFHandle' = opened[kDefaultColumnFamilyName]

\* initializeMainDB when rocksdb::DB::Open fails: its status is not looked at
\* (line 95), m_pRocksDB is null and cfHandles is empty, and the loop of lines
\* 101-112 reads cfHandles[i] past its end for every descriptor
initializeMainDB_OpenFailed ==
    LET columnNames   == SelectSeq(NameSeq, LAMBDA x : x \in store)
        hasDefaultCF  == kDefaultColumnFamilyName \in store
        cfDescriptors == IF hasDefaultCF THEN columnNames
                         ELSE Append(columnNames, kDefaultColumnFamilyName)
        public        == Range(cfDescriptors) \ {kDefaultColumnFamilyName}
    IN  /\ m_pRocksDB' = FALSE
        /\ store' = store
        /\ m_mapCFHandles' =
               [x \in (DOMAIN m_mapCFHandles) \cup public |->
                   IF x \in DOMAIN m_mapCFHandles THEN m_mapCFHandles[x] ELSE WildHandle]
        /\ m_pDefaultCFHandle' = WildHandle

\* initialize() when the engine cannot be opened: the read past the end of
\* cfHandles is undefined; the process dies there, or the read yields some
\* value and initialize() goes on to its end
InitializeOpenFailed ==
    /\ ~m_pRocksDB /\ ~m_isInitialized
    /\ \A t \in Threads : Idle(t)
    /\ \/ /\ Crash
          /\ UNCHANGED <<mgrVars, store>>
       \/ /\ initializeMainDB_OpenFailed
          /\ m_isInitialized' = TRUE
          /\ UNCHANGED pc
    /\ UNCHANGED <<data, m_kvdbHandlerCollection, handlers, threads, call, loc, res>>

Initialize ==
    /\ ~m_pRocksDB /\ ~m_isInitialized
    /\ \A t \in Threads : Idle(t)
    /\ initializeMainDB
    /\ m_isInitialized' = TRUE
    /\ UNCHANGED <<data, m_kvdbHandlerCollection, handlers, threads, pc, call, loc, res>>

\* finalizeMainDB without the clear() of line 127
finalizeMainDB_NoClear ==
    LET dropped == {h.name : h \in {g \in Range(m_mapCFHandles) : g.st = "live"}}
    IN  /\ store' = store \ dropped
        /\ data' = [x \in Names |-> IF x \in dropped THEN EmptyMap ELSE data[x]]
        /\ m_mapCFHandles' = [x \in DOMAIN m_mapCFHandles |-> Destroyed(m_mapCFHandles[x])]
        /\ m_pRocksDB' = FALSE
        /\ m_pDefaultCFHandle' = Destroyed(m_pDefaultCFHandle)
        /\ handlers' = DestroyedHandlers(handlers)

\* finalizeMainDB: drop and destroy every tracked column family, destroy the
\* default handle, clear the map, close the DB
finalizeMainDB ==
    LET dropped == {h.name : h \in {g \in Range(m_mapCFHandles) : g.st = "live"}}
    IN  /\ store' = store \ dropped
        /\ data' = [x \in Names |-> IF x \in dropped THEN EmptyMap ELSE data[x]]
        /\ m_mapCFHandles' = EmptyMap
        /\ m_pRocksDB' = FALSE
        /\ m_pDefaultCFHandle' = Destroyed(m_pDefaultCFHandle)
        /\ handlers' = DestroyedHandlers(handlers)

\* finalize(); DropColumnFamily on a null handle of the map dereferences it
Finalize ==
    /\ m_pRocksDB
    /\ \A t \in Threads : Idle(t)
    /\ \/ /\ finalizeMainDB
          /\ m_isInitialized' = FALSE
          /\ UNCHANGED pc
       \/ /\ NullHandle \in Range(m_mapCFHandles)
          /\ Crash
          /\ UNCHANGED <<mgrVars, engVars, handlers>>
    /\ UNCHANGED <<m_kvdbHandlerCollection, threads, call, loc, res>>

----------------------------------------------------------------------------
(* Calls of the public surface *)

existsDB(name) == name \in DOMAIN m_mapCFHandles

listDBs == DOMAIN m_mapCFHandles

InFlightGets == {u \in Threads : call[u].op = "get" /\ pc[u] \notin {"idle", "done"}}

FirstPc(op) ==
    CASE op = "create" -> "cr_exists"
      [] op = "delete" -> "hi_names"
      [] op = "get"    -> "gh_count"
      [] op = "usage"  -> "hi_names"
      [] op = "scopes" -> "hi_names"
      [] op = "load"   -> "ld_count"

\* the calls the callers make on a manager that holds an open engine: "n" is created and deleted at will, "m" is a
\* database of the store that is only opened, "default" is the reserved name
Calls ==
    [op : {"create", "delete"}, name : {"n", kDefaultColumnFamilyName}, scope : {""},
     path : {""}]
        \cup [op : {"get"}, name : {"n"}, scope : Scopes, path : {""}]
        \cup [op : {"get"}, name : {"m", kDefaultColumnFamilyName}, scope : {"s1"}, path : {""}]
        \cup [op : {"scopes"}, name : {""}, scope : {""}, path : {""}]

Call(t) ==
    /\ t \in threads
    /\ Idle(t)
    /\ m_isInitialized /\ m_pRocksDB
    /\ \E c \in Calls :
          /\ c.op = "get" => BagCardinality(handlers) + Cardinality(InFlightGets) < MaxHandlers
          /\ call' = [call EXCEPT ![t] = c]
          /\ pc' = [pc EXCEPT ![t] = FirstPc(c.op)]
    /\ UNCHANGED <<mgrVars, engVars, m_kvdbHandlerCollection, handlers, threads, loc, res>>

\* the caller has taken the result and is ready for its next call
Return(t) ==
    /\ pc[t] = "done"
    /\ pc' = [pc EXCEPT ![t] = "idle"]
    /\ call' = [call EXCEPT ![t] = NoCall]
    /\ res' = [res EXCEPT ![t] = NoRes]
    /\ UNCHANGED <<mgrVars, engVars, m_kvdbHandlerCollection, handlers, threads, loc>>

\* the call of t returns r
Done(t, r) ==
    /\ pc' = [pc EXCEPT ![t] = "done"]
    /\ res' = [res EXCEPT ![t] = r]

\* t goes on to the statement at label
Goto(t, label) ==
    /\ pc' = [pc EXCEPT ![t] = label]
    /\ UNCHANGED res

----------------------------------------------------------------------------
(* getKVDBHandlersInfo / getKVDBScopesInfo *)

\* lines 171-172 of deleteDB: refCount = handlersInfo.count(name), the number
\* of elements of the std::map stored under the key
RefCount(handlersInfo, name) == IF name \in DOMAIN handlersInfo THEN 1 ELSE 0

RECURSIVE AddScopes(_, _, _, _)
\* inner loop of getKVDBScopesInfo over the scopes using one database
AddScopes(refCounterMap, dbName, scopesUsingDB, todo) ==
    IF todo = {} THEN refCounterMap
    ELSE LET scopeName  == CHOOSE x \in todo : TRUE
             counterMap == IF scopeName \in DOMAIN refCounterMap
                           THEN refCounterMap[scopeName] ELSE EmptyMap
         IN  AddScopes(MapPut(refCounterMap, scopeName,
                              addRef(counterMap, dbName, scopesUsingDB[scopeName])),
                       dbName, scopesUsingDB, todo \ {scopeName})

RECURSIVE AddDBs(_, _, _)
\* outer loop of getKVDBScopesInfo over the databases of handlersInfo
AddDBs(refCounterMap, handlersInfo, todo) ==
    IF todo = {} THEN refCounterMap
    ELSE LET dbName == CHOOSE x \in todo : TRUE
         IN  AddDBs(AddScopes(refCounterMap, dbName, handlersInfo[dbName],
                              DOMAIN handlersInfo[dbName]),
                    handlersInfo, todo \ {dbName})

\* getKVDBScopesInfo applied to the handlersInfo it has read
getKVDBScopesInfo(handlersInfo) == AddDBs(EmptyMap, handlersInfo, DOMAIN handlersInfo)

\* what the caller of getKVDBHandlersInfo does with the map once it is built
AfterInfo(t, info) ==
    /\ loc' = [loc EXCEPT ![t] = NoLoc]
    /\ CASE call[t].op = "delete" ->
              IF RefCount(info, call[t].name) > 0
              THEN Done(t, [Result("in_use") EXCEPT !.count = RefCount(info, call[t].name),
                                                    !.info = info])
              ELSE Goto(t, "del_find")
         [] call[t].op = "usage" ->
              Done(t, [Result("info") EXCEPT !.val = info, !.info = info])
         [] call[t].op = "scopes" ->
              Done(t, [Result("info") EXCEPT !.val = getKVDBScopesInfo(info), !.info = info])

\* line 337: dbNames = m_kvdbHandlerCollection->getDBNames()
HI_Names(t) ==
    /\ pc[t] = "hi_names"
    /\ LET dbNames == getDBNames(m_kvdbHandlerCollection)
       IN  IF dbNames = {}
           THEN AfterInfo(t, EmptyMap)
           ELSE /\ loc' = [loc EXCEPT ![t].names = dbNames, ![t].info = EmptyMap]
                /\ Goto(t, "hi_refmap")
    /\ UNCHANGED <<mgrVars, engVars, m_kvdbHandlerCollection, handlers, threads, call>>

\* lines 338-342: one turn of the loop, getRefMap(dbName) and insert
HI_RefMap(t) ==
    /\ pc[t] = "hi_refmap"
    /\ LET dbName  == CHOOSE x \in loc[t].names :
                          \A y \in loc[t].names : SeqIndex(NameSeq, x) <= SeqIndex(NameSeq, y)
           refInfo == getRefMap(m_kvdbHandlerCollection, dbName)
           \* of the map it builds, deleteDB reads the entry of name alone
           info    == IF call[t].op = "delete" /\ dbName # call[t].name
                      THEN loc[t].info
                      ELSE MapInsert(loc[t].info, dbName, refInfo)
           rest    == loc[t].names \ {dbName}
       IN  IF rest = {}
           THEN AfterInfo(t, info)
           ELSE /\ loc' = [loc EXCEPT ![t].names = rest, ![t].info = info]
                /\ Goto(t, "hi_refmap")
    /\ UNCHANGED <<mgrVars, engVars, m_kvdbHandlerCollection, handlers, threads, call>>

----------------------------------------------------------------------------
(* deleteDB *)

\* lines 177-180 and 192-195: it = m_mapCFHandles.find(name)
Del_Find(t) ==
    /\ pc[t] = "del_find"
    /\ IF call[t].name \in DOMAIN m_mapCFHandles
       THEN /\ loc' = [loc EXCEPT ![t].cf = m_mapCFHandles[call[t].name]]
            /\ Goto(t, "del_drop")
       ELSE /\ Done(t, Result("not_exists"))
            /\ UNCHANGED loc
    /\ UNCHANGED <<mgrVars, engVars, m_kvdbHandlerCollection, handlers, threads, call>>

\* Del_Drop that erases the name from the map whatever the engine answers
Del_Drop_EraseAnyway(t) ==
    /\ pc[t] = "del_drop"
    /\ \E fault \in BOOLEAN :
          LET cf == loc[t].cf
              refused == cf.st # "live" \/ cf.name = kDefaultColumnFamilyName
              DropIt(h) == Dropped(h, cf.name)
          IN  IF ~refused /\ ~fault
              THEN /\ store' = store \ {cf.name}
                   /\ data' = [data EXCEPT ![cf.name] = EmptyMap]
                   /\ m_mapCFHandles' = [x \in DOMAIN m_mapCFHandles |-> DropIt(m_mapCFHandles[x])]
                   /\ handlers' = DroppedHandlers(handlers, cf.name)
                   /\ loc' = [u \in Threads |-> [loc[u] EXCEPT !.cf = DropIt(loc[u].cf)]]
                   /\ Goto(t, "del_erase")
              ELSE /\ Done(t, EngineError(IF refused THEN "InvalidArgument" ELSE "IOError"))
                   /\ loc' = [loc EXCEPT ![t] = NoLoc]
                   /\ m_mapCFHandles' = MapErase(m_mapCFHandles, call[t].name)
                   /\ UNCHANGED <<store, data, handlers>>
    /\ UNCHANGED <<m_isInitialized, m_pRocksDB, m_pDefaultCFHandle,
                   m_kvdbHandlerCollection, threads, call>>

\* lines 181-190: opStatus = m_pRocksDB->DropColumnFamily(cfHandle).  The
\* engine refuses a handle that is not a live column family and the default
\* one, and it may fail for reasons of its own.
Del_Drop(t) ==
    /\ pc[t] = "del_drop"
    /\ \/ \E fault \in BOOLEAN :
             LET cf == loc[t].cf
                 refused == cf.st # "live" \/ cf.name = kDefaultColumnFamilyName
                 DropIt(h) == Dropped(h, cf.name)
             IN  IF ~refused /\ ~fault
                 THEN /\ store' = store \ {cf.name}
                      /\ data' = [data EXCEPT ![cf.name] = EmptyMap]
                      /\ m_mapCFHandles' = [x \in DOMAIN m_mapCFHandles |-> DropIt(m_mapCFHandles[x])]
                      /\ handlers' = DroppedHandlers(handlers, cf.name)
                      /\ loc' = [u \in Threads |-> [loc[u] EXCEPT !.cf = DropIt(loc[u].cf)]]
                      /\ Goto(t, "del_erase")
                 ELSE /\ Done(t, EngineError(IF refused THEN "InvalidArgument" ELSE "IOError"))
                      /\ loc' = [loc EXCEPT ![t] = NoLoc]
                      /\ UNCHANGED <<store, data, m_mapCFHandles, handlers>>
       \/ \* the handle read from the map is null: the engine dereferences it
          /\ loc[t].cf = NullHandle
          /\ Crash
          /\ UNCHANGED <<store, data, m_mapCFHandles, handlers, loc, res>>
    /\ UNCHANGED <<m_isInitialized, m_pRocksDB, m_pDefaultCFHandle,
                   m_kvdbHandlerCollection, threads, call>>

\* Del_Erase with the erase left out
Del_Erase_Keep(t) ==
    /\ pc[t] = "del_erase"
    /\ loc' = [loc EXCEPT ![t] = NoLoc]
    /\ Done(t, Result("ok"))
    /\ UNCHANGED <<mgrVars, engVars, m_kvdbHandlerCollection, handlers, threads, call>>

\* line 184: m_mapCFHandles.erase(it)
Del_Erase(t) ==
    /\ pc[t] = "del_erase"
    /\ m_mapCFHandles' = MapErase(m_mapCFHandles, call[t].name)
    /\ loc' = [loc EXCEPT ![t] = NoLoc]
    /\ Done(t, Result("ok"))
    /\ UNCHANGED <<m_isInitialized, m_pRocksDB, m_pDefaultCFHandle, engVars,
                   m_kvdbHandlerCollection, handlers, threads, call>>

----------------------------------------------------------------------------
(* getKVDBHandler *)

\* lines 138, 142-145: m_mapCFHandles.count(dbName)
GH_Count(t) ==
    /\ pc[t] = "gh_count"
    /\ IF call[t].name \in DOMAIN m_mapCFHandles
       THEN Goto(t, "gh_read")
       ELSE Done(t, Result("not_exists"))
    /\ UNCHANGED <<mgrVars, engVars, m_kvdbHandlerCollection, handlers, threads, call, loc>>

\* line 140: cfHandle = m_mapCFHandles[dbName]; operator[] stores a null
\* handle under the key if the key is not in the map
GH_Read(t) ==
    /\ pc[t] = "gh_read"
    /\ m_mapCFHandles' = MapInsert(m_mapCFHandles, call[t].name, NullHandle)
    /\ loc' = [loc EXCEPT ![t].cf = m_mapCFHandles'[call[t].name]]
    /\ Goto(t, "gh_add")
    /\ UNCHANGED <<m_isInitialized, m_pRocksDB, m_pDefaultCFHandle, engVars,
                   m_kvdbHandlerCollection, handlers, threads, call>>

\* GH_Add with the handler constructed but not counted in the collection
GH_Add_NoRegister(t) ==
    /\ pc[t] = "gh_add"
    /\ handlers' = handlers (+) SetToBag({[db |-> call[t].name, scope |-> call[t].scope,
                                            cf |-> loc[t].cf]})
    /\ loc' = [loc EXCEPT ![t] = NoLoc]
    /\ Done(t, Result("handler"))
    /\ UNCHANGED <<mgrVars, engVars, m_kvdbHandlerCollection, threads, call>>

\* GH_Add with the database name passed for the scope name too
GH_Add_WrongScope(t) ==
    /\ pc[t] = "gh_add"
    /\ m_kvdbHandlerCollection' =
           addKVDBHandler(m_kvdbHandlerCollection, call[t].name, call[t].name)
    /\ handlers' = handlers (+) SetToBag({[db |-> call[t].name, scope |-> call[t].scope,
                                            cf |-> loc[t].cf]})
    /\ loc' = [loc EXCEPT ![t] = NoLoc]
    /\ Done(t, Result("handler"))
    /\ UNCHANGED <<mgrVars, engVars, threads, call>>

\* lines 147-151: addKVDBHandler(dbName, scopeName), construct the KVDBHandler
GH_Add(t) ==
    /\ pc[t] = "gh_add"
    /\ m_kvdbHandlerCollection' =
           addKVDBHandler(m_kvdbHandlerCollection, call[t].name, call[t].scope)
    /\ handlers' = handlers (+) SetToBag({[db |-> call[t].name, scope |-> call[t].scope,
                                            cf |-> loc[t].cf]})
    /\ loc' = [loc EXCEPT ![t] = NoLoc]
    /\ Done(t, Result("handler"))
    /\ UNCHANGED <<mgrVars, engVars, threads, call>>

\* a KVDBHandler is released: it removes itself from the collection
Release(h) ==
    /\ h \in BagToSet(handlers)
    /\ handlers' = handlers (-) SetToBag({h})
    /\ m_kvdbHandlerCollection' = removeKVDBHandler(m_kvdbHandlerCollection, h.db, h.scope)
    /\ UNCHANGED <<mgrVars, engVars, threads, pc, call, loc, res>>

----------------------------------------------------------------------------
(* createDB *)

\* lines 272-275: existsDB(name)
CR_Exists(t) ==
    /\ pc[t] = "cr_exists"
    /\ IF existsDB(call[t].name) THEN Done(t, Result("ok")) ELSE Goto(t, "cr_create")
    /\ UNCHANGED <<mgrVars, engVars, m_kvdbHandlerCollection, handlers, threads, call, loc>>

\* CR_Create that inserts cfHandle in the map before it looks at the status
CR_Create_TrackFailed(t) ==
    /\ pc[t] = "cr_create"
    /\ \E fault \in BOOLEAN :
          LET refused == call[t].name \in store
          IN  IF ~refused /\ ~fault
              THEN /\ store' = store \cup {call[t].name}
                   /\ data' = [data EXCEPT ![call[t].name] = EmptyMap]
                   /\ loc' = [loc EXCEPT ![t].cf = LiveHandle(call[t].name)]
                   /\ Goto(t, "cr_insert")
                   /\ UNCHANGED m_mapCFHandles
              ELSE /\ Done(t, EngineError(IF refused THEN "InvalidArgument" ELSE "IOError"))
                   /\ m_mapCFHandles' = MapInsert(m_mapCFHandles, call[t].name, NullHandle)
                   /\ UNCHANGED <<store, data, loc>>
    /\ UNCHANGED <<m_isInitialized, m_pRocksDB, m_pDefaultCFHandle,
                   m_kvdbHandlerCollection, handlers, threads, call>>

\* createColumnFamily, line 40: m_pRocksDB->CreateColumnFamily(options, name,
\* &cfHandle).  The engine refuses a name it already has, and it may fail for
\* reasons of its own.
CR_Create(t) ==
    /\ pc[t] = "cr_create"
    /\ \E fault \in BOOLEAN :
          LET refused == call[t].name \in store
          IN  IF ~refused /\ ~fault
              THEN /\ store' = store \cup {call[t].name}
                   /\ data' = [data EXCEPT ![call[t].name] = EmptyMap]
                   /\ loc' = [loc EXCEPT ![t].cf = LiveHandle(call[t].name)]
                   /\ Goto(t, "cr_insert")
              ELSE /\ Done(t, EngineError(IF refused THEN "InvalidArgument" ELSE "IOError"))
                   /\ UNCHANGED <<store, data, loc>>
    /\ UNCHANGED <<mgrVars, m_kvdbHandlerCollection, handlers, threads, call>>

\* createColumnFamily, line 44: m_mapCFHandles.insert(make_pair(name, cfHandle))
CR_Insert(t) ==
    /\ pc[t] = "cr_insert"
    /\ m_mapCFHandles' = MapInsert(m_mapCFHandles, call[t].name, loc[t].cf)
    /\ loc' = [loc EXCEPT ![t] = NoLoc]
    /\ Done(t, Result("ok"))
    /\ UNCHANGED <<m_isInitialized, m_pRocksDB, m_pDefaultCFHandle, engVars,
                   m_kvdbHandlerCollection, handlers, threads, call>>

----------------------------------------------------------------------------
(* loadDBFromFile *)

\* json::Json values of the documents: a string or a number
JString(s) == [type |-> "string", text |-> s]
JNumber(s) == [type |-> "number", text |-> s]

\* value.str(): the JSON text of a value; a string is written with its quotes
Str(v) == IF v.type = "string" THEN "\"" \o v.text \o "\"" ELSE v.text

\* the files of the host: what std::ifstream and the json::Json constructor
\* make of each path (the empty path names no file)
Files ==
    [x \in {"/garbage", "/array", "/empty", "/ab", "/ba"} |->
        CASE x = "/garbage" -> [parses |-> FALSE, isObject |-> FALSE, entries |-> << >>]
          [] x = "/array"   -> [parses |-> TRUE, isObject |-> FALSE, entries |-> << >>]
          [] x = "/empty"   -> [parses |-> TRUE, isObject |-> TRUE, entries |-> << >>]
          [] x = "/ab"      -> [parses |-> TRUE, isObject |-> TRUE,
                                entries |-> << <<"a", JString("1")>>, <<"b", JString("2")>> >>]
          [] x = "/ba"      -> [parses |-> TRUE, isObject |-> TRUE,
                                entries |-> << <<"b", JNumber("1")>>, <<"a", JString("2")>> >>]]

Paths == {"", "/missing"} \cup DOMAIN Files

LoadCalls == [op : {"load"}, name : Names, scope : {""}, path : Paths]

CallLoad(t) ==
    /\ t \in threads
    /\ Idle(t)
    /\ m_isInitialized /\ m_pRocksDB
    /\ \E c \in LoadCalls :
          /\ call' = [call EXCEPT ![t] = c]
          /\ pc' = [pc EXCEPT ![t] = FirstPc(c.op)]
    /\ UNCHANGED <<mgrVars, engVars, m_kvdbHandlerCollection, handlers, threads, loc, res>>

\* lines 205, 210-213: m_mapCFHandles.count(name); cfHandle stays nullptr if
\* the name is not a key
Load_Count(t) ==
    /\ pc[t] = "ld_count"
    /\ IF call[t].name \in DOMAIN m_mapCFHandles
       THEN Goto(t, "ld_read")
       ELSE Done(t, Result("not_exists"))
    /\ UNCHANGED <<mgrVars, engVars, m_kvdbHandlerCollection, handlers, threads, call, loc>>

\* lines 207, 210-213: cfHandle = m_mapCFHandles[name], then the test of cfHandle
Load_Read(t) ==
    /\ pc[t] = "ld_read"
    /\ m_mapCFHandles' = MapInsert(m_mapCFHandles, call[t].name, NullHandle)
    /\ IF m_mapCFHandles'[call[t].name] = NullHandle
       THEN /\ Done(t, Result("not_exists"))
            /\ UNCHANGED loc
       ELSE /\ loc' = [loc EXCEPT ![t].cf = m_mapCFHandles'[call[t].name]]
            /\ Goto(t, "ld_parse")
    /\ UNCHANGED <<m_isInitialized, m_pRocksDB, m_pDefaultCFHandle, engVars,
                   m_kvdbHandlerCollection, handlers, threads, call>>

\* Load_Parse without the test of line 249: the members of any root are taken
Load_Parse_AnyRoot(t) ==
    /\ pc[t] = "ld_parse"
    /\ LET path == call[t].path
       IN  CASE path = "" -> Done(t, Result("path_empty")) /\ loc' = [loc EXCEPT ![t] = NoLoc]
             [] path # "" /\ path \notin DOMAIN Files ->
                    Done(t, Result("open_failed")) /\ loc' = [loc EXCEPT ![t] = NoLoc]
             [] path \in DOMAIN Files /\ ~Files[path].parses ->
                    Done(t, Result("parse_failed")) /\ loc' = [loc EXCEPT ![t] = NoLoc]
             [] OTHER ->
                    /\ loc' = [loc EXCEPT ![t].entries = << <<"a", JString("1")>> >>]
                    /\ Goto(t, "ld_put")
    /\ UNCHANGED <<mgrVars, engVars, m_kvdbHandlerCollection, handlers, threads, call>>

\* lines 216-255: the path, the file, the parse, the root of the document
Load_Parse(t) ==
    /\ pc[t] = "ld_parse"
    /\ LET path == call[t].path
       IN  CASE path = "" -> Done(t, Result("path_empty")) /\ loc' = [loc EXCEPT ![t] = NoLoc]
             [] path # "" /\ path \notin DOMAIN Files ->
                    Done(t, Result("open_failed")) /\ loc' = [loc EXCEPT ![t] = NoLoc]
             [] path \in DOMAIN Files /\ ~Files[path].parses ->
                    Done(t, Result("parse_failed")) /\ loc' = [loc EXCEPT ![t] = NoLoc]
             [] path \in DOMAIN Files /\ Files[path].parses /\ ~Files[path].isObject ->
                    Done(t, Result("not_object")) /\ loc' = [loc EXCEPT ![t] = NoLoc]
             [] OTHER ->
                    /\ loc' = [loc EXCEPT ![t].entries = Files[path].entries]
                    /\ Goto(t, "ld_put")
    /\ UNCHANGED <<mgrVars, engVars, m_kvdbHandlerCollection, handlers, threads, call>>

\* Load_Put that goes on to the next entry when a write fails
Load_Put_SkipFailed(t) ==
    /\ pc[t] = "ld_put"
    /\ IF loc[t].entries = << >>
       THEN /\ Done(t, Result("ok"))
            /\ loc' = [loc EXCEPT ![t] = NoLoc]
            /\ UNCHANGED data
       ELSE \E fault \in BOOLEAN :
               LET cf    == loc[t].cf
                   key   == Head(loc[t].entries)[1]
                   value == Head(loc[t].entries)[2]
               IN  /\ IF cf.st = "live" /\ ~fault
                      THEN data' = [data EXCEPT ![cf.name] = MapPut(@, key, Str(value))]
                      ELSE UNCHANGED data
                   /\ loc' = [loc EXCEPT ![t].entries = Tail(@)]
                   /\ Goto(t, "ld_put")
    /\ UNCHANGED <<mgrVars, store, m_kvdbHandlerCollection, handlers, threads, call>>

\* lines 257-267: one turn of the loop, m_pRocksDB->Put(cfHandle, key,
\* value.str()); the engine fails a write to a handle that is not a live
\* column family, and it may fail for reasons of its own
Load_Put(t) ==
    /\ pc[t] = "ld_put"
    /\ IF loc[t].entries = << >>
       THEN /\ Done(t, Result("ok"))
            /\ loc' = [loc EXCEPT ![t] = NoLoc]
            /\ UNCHANGED data
       ELSE \E fault \in BOOLEAN :
               LET cf    == loc[t].cf
                   key   == Head(loc[t].entries)[1]
                   value == Head(loc[t].entries)[2]
               IN  IF cf.st = "live" /\ ~fault
                   THEN /\ data' = [data EXCEPT ![cf.name] = MapPut(@, key, Str(value))]
                        /\ loc' = [loc EXCEPT ![t].entries = Tail(@)]
                        /\ Goto(t, "ld_put")
                   ELSE /\ Done(t, Result("put_failed"))
                        /\ loc' = [loc EXCEPT ![t] = NoLoc]
                        /\ UNCHANGED data
    /\ UNCHANGED <<mgrVars, store, m_kvdbHandlerCollection, handlers, threads, call>>

----------------------------------------------------------------------------

Next ==
    \/ Initialize
    \/ InitializeOpenFailed
    \/ Finalize
    \/ \E t \in Threads : Call(t)
    \/ \E t \in Threads : Return(t)
    \/ \E t \in Threads : HI_Names(t)
    \/ \E t \in Threads : HI_RefMap(t)
    \/ \E t \in Threads : Del_Find(t)
    \/ \E t \in Threads : Del_Drop(t)
    \/ \E t \in Threads : Del_Erase(t)
    \/ \E t \in Threads : GH_Count(t)
    \/ \E t \in Threads : GH_Read(t)
    \/ \E t \in Threads : GH_Add(t)
    \/ \E t \in Threads : CR_Exists(t)
    \/ \E t \in Threads : CR_Create(t)
    \/ \E t \in Threads : CR_Insert(t)
    \/ \E h \in BagToSet(handlers) : Release(h)

Spec == Init /\ [][Next]_vars

\* the manager with the bulk load, used by one caller thread
InitLoad == Init /\ threads = {"t1"}

NextLoad ==
    \/ Next
    \/ \E t \in Threads : CallLoad(t)
    \/ \E t \in Threads : Load_Count(t)
    \/ \E t \in Threads : Load_Read(t)
    \/ \E t \in Threads : Load_Parse(t)
    \/ \E t \in Threads : Load_Put(t)

SpecLoad == InitLoad /\ [][NextLoad]_vars

----------------------------------------------------------------------------
(* Properties *)

\* the run has a single caller thread: its calls do not overlap
SingleCaller == threads = {"t1"}

Returned(t, op) == pc[t] = "done" /\ call[t].op = op

\* count the collection keeps for (d, s)
RegCount(d, s) ==
    IF d \in DOMAIN m_kvdbHandlerCollection /\ s \in DOMAIN m_kvdbHandlerCollection[d]
    THEN m_kvdbHandlerCollection[d][s] ELSE 0

\* number of live KVDBHandler objects bound to (d, s)
LiveCount(d, s) ==
    LET S == {h \in BagToSet(handlers) : h.db = d /\ h.scope = s}
    IN  IF S = {} THEN 0 ELSE BagCardinality([h \in S |-> handlers[h]])

\* C1: a database is never deleted while a usage entry for it has count > 0:
\* whenever deleteDB drops the column family of its name, the collection holds
\* no entry for that name.
C1_NeverDeletedWhileInUse ==
    [][\A t \in Threads :
          (pc[t] = "del_drop" /\ pc'[t] = "del_erase")
              => call[t].name \notin DOMAIN m_kvdbHandlerCollection]_vars

\* C2: deleteDB and getKVDBHandler of one name exclude each other: no live
\* handler is bound to a column family that deleteDB has dropped, or to the
\* null handle of a name that is not tracked.
C2_NoHandlerOnDroppedNamespace ==
    \A h \in BagToSet(handlers) : h.cf.st \notin {"dropped", "null"}

\* C3: the count deleteDB reports with the in-use error is the number of
\* scopes that hold handlers on the name (stated for the returns whose
\* reading of the collection is still the collection's content).
C3_ReportedCountIsScopeCount ==
    \A t \in Threads :
        (/\ Returned(t, "delete")
         /\ res[t].kind = "in_use"
         /\ call[t].name \in DOMAIN m_kvdbHandlerCollection
         /\ res[t].info = [x \in {call[t].name} |-> m_kvdbHandlerCollection[x]])
            => res[t].count = Cardinality(DOMAIN m_kvdbHandlerCollection[call[t].name])

\* a deleteDB(x) of the single caller on a tracked x that no handler uses,
\* at a statement before the drop has taken effect
DeleteUnused(t) ==
    LET x == call[t].name
    IN  /\ call[t].op = "delete"
        /\ x \notin DOMAIN m_kvdbHandlerCollection
        /\ existsDB(x) /\ m_mapCFHandles[x] = LiveHandle(x)
        /\ \/ pc[t] \in {"hi_names", "del_find"}
           \/ pc[t] = "hi_refmap" /\ x \notin loc[t].names /\ x \notin DOMAIN loc[t].info
           \/ pc[t] = "del_drop" /\ loc[t].cf = LiveHandle(x)

\* C4: with calls that do not overlap, deleteDB(n) on a tracked n whose
\* handlers are all released goes through to the drop and returns success
\* with n untracked (it returns an error only if the engine fails the drop,
\* and then n stays tracked); an untracked n stays untracked until createDB
\* inserts it; and getKVDBHandler on an untracked n returns the not-exists
\* error and creates no handler.
C4_DeleteAfterRelease ==
    [][SingleCaller => \A t \in threads :
          /\ DeleteUnused(t) =>
                \/ DeleteUnused(t)'
                \/ pc'[t] = "del_erase" /\ call[t].name \notin store'
                \/ /\ Returned(t, "delete")' /\ res'[t].kind = "engine"
                   /\ res'[t].status = "IOError" /\ existsDB(call[t].name)'
          /\ (pc[t] = "del_erase" /\ pc'[t] # "del_erase") =>
                /\ Returned(t, "delete")' /\ res'[t].kind = "ok"
                /\ ~existsDB(call[t].name)'
          /\ \A x \in DBNames :
                (m_isInitialized /\ ~existsDB(x) /\ existsDB(x)') =>
                    (call[t].op = "create" /\ call[t].name = x /\ pc[t] = "cr_insert")
          /\ (call[t].op = "get" /\ pc[t] = "gh_count" /\ ~existsDB(call[t].name)
                /\ pc'[t] # "gh_count") =>
                /\ pc'[t] = "done" /\ res'[t].kind = "not_exists"
                /\ UNCHANGED <<m_kvdbHandlerCollection, handlers, m_mapCFHandles>>]_vars

C4_Witness ==
    /\ SingleCaller
    /\ Returned("t1", "delete") /\ res["t1"].kind = "ok"
    /\ call["t1"].name \notin DOMAIN m_kvdbHandlerCollection
    /\ ~existsDB(call["t1"].name)
    /\ handlers # EmptyBag

\* C5: the count the collection keeps for each (database, scope) is the
\* number of live handlers bound to that pair, and the collection keeps no
\* entry at zero.
C5_RegistryMatchesHandlers ==
    /\ \A d \in Names : \A s \in Scopes : RegCount(d, s) = LiveCount(d, s)
    /\ \A d \in DOMAIN m_kvdbHandlerCollection :
          /\ DOMAIN m_kvdbHandlerCollection[d] # {}
          /\ \A s \in DOMAIN m_kvdbHandlerCollection[d] : m_kvdbHandlerCollection[d][s] > 0

C5_Witness ==
    \E t \in Threads :
        /\ Returned(t, "get") /\ res[t].kind = "handler"
        /\ RegCount(call[t].name, call[t].scope) = 2
        /\ \E u \in Threads : Returned(u, "get") /\ res[u].kind = "not_exists"

\* C6: createDB of a valid name succeeds whether or not the name is already
\* tracked, also when two threads create the same name at once: it returns
\* an error only when the engine fails for reasons of its own, never because
\* the name already exists.
C6_CreateIsIdempotent ==
    \A t \in Threads :
        (Returned(t, "create") /\ call[t].name \in DBNames /\ res[t].status # "IOError")
            => res[t].kind = "ok"

\* C7: a database is destroyed only by deleteDB: every step that removes a
\* column family from the store is the drop of a deleteDB of that name, so
\* that what createDB made is there for the next initialize.
C7_DestroyedOnlyByDelete ==
    [][\A x \in store \ store' :
          \E t \in Threads :
              call[t].op = "delete" /\ call[t].name = x /\ pc[t] = "del_drop"]_vars

\* C8: listDBs never contains the default column family, the open store
\* always has it, and createDB and deleteDB called with its name fail without
\* creating or dropping it.
C8_DefaultNeverExposed ==
    /\ kDefaultColumnFamilyName \notin listDBs
    /\ m_pRocksDB => kDefaultColumnFamilyName \in store
    /\ \A t \in Threads :
          call[t].name = kDefaultColumnFamilyName =>
              /\ Returned(t, "create") => res[t].kind = "engine"
              /\ Returned(t, "delete") => res[t].kind = "not_exists"
              /\ Returned(t, "get") => res[t].kind = "not_exists"

C8_Witness ==
    /\ m_isInitialized
    /\ listDBs = {}
    /\ store = {kDefaultColumnFamilyName}
    /\ \E t \in Threads : Returned(t, "create") /\ call[t].name = kDefaultColumnFamilyName
    /\ \E t \in Threads : Returned(t, "delete") /\ call[t].name = kDefaultColumnFamilyName

\* u (database -> scope -> count) and v (scope -> database -> count) hold the
\* same entries, and no database or scope is a key of one and absent from the other
ExactTranspose(u, v) ==
    /\ \A d \in DOMAIN u : \A s \in DOMAIN u[d] :
          s \in DOMAIN v /\ d \in DOMAIN v[s] /\ v[s][d] = u[d][s]
    /\ \A s \in DOMAIN v : \A d \in DOMAIN v[s] :
          d \in DOMAIN u /\ s \in DOMAIN u[d] /\ u[d][s] = v[s][d]
    /\ \A d \in DOMAIN u : \E s \in DOMAIN v : d \in DOMAIN v[s]
    /\ \A s \in DOMAIN v : \E d \in DOMAIN u : s \in DOMAIN u[d]

\* C9: the map getKVDBScopesInfo returns and the getKVDBHandlersInfo map it
\* was computed from are exact transposes, under concurrent acquire and release.
C9_ViewsAreTransposes ==
    \A t \in Threads :
        Returned(t, "scopes") => ExactTranspose(res[t].info, res[t].val)

\* two getKVDBHandler calls on one tracked database from two scopes are in
\* progress together, and neither has failed
BothGet ==
    /\ \A t \in Threads :
          /\ call[t].op = "get"
          /\ pc[t] \in {"gh_count", "gh_read", "gh_add"}
                \/ (pc[t] = "done" /\ res[t].kind = "handler")
    /\ call["t1"].name = call["t2"].name
    /\ call["t1"].scope # call["t2"].scope
    /\ existsDB(call["t1"].name)

\* C10: two getKVDBHandler calls on a tracked database from two scopes that
\* run together both return a handler; when both have returned and both
\* handlers are live the collection shows exactly one handler for each of the
\* two scopes; and a release lowers the count of its own (database, scope)
\* by one and changes no other count.
C10_ConcurrentGets ==
    [][/\ (BothGet /\ \A t \in Threads : pc'[t] # "idle") => BothGet'
       /\ (/\ BothGet
           /\ \A t \in Threads : pc[t] = "done" /\ LiveCount(call[t].name, call[t].scope) = 1)
             => m_kvdbHandlerCollection[call["t1"].name] =
                    [s \in {call["t1"].scope, call["t2"].scope} |-> 1]
       /\ \A h \in BagToSet(handlers) :
             handlers' = handlers (-) SetToBag({h}) =>
                 \A d \in Names : \A s \in Scopes :
                     RegCount(d, s)' = RegCount(d, s) - (IF d = h.db /\ s = h.scope THEN 1 ELSE 0)]_vars

C10_Witness ==
    /\ BothGet
    /\ \A t \in Threads : pc[t] = "done"
    /\ m_kvdbHandlerCollection[call["t1"].name] = [s \in Scopes |-> 1]

\* thread t takes a step of its call and the process lives: the step moves
\* t to another statement or on to the next turn of a loop
StepOf(t) ==
    /\ pc'[t] # "crashed"
    /\ \/ pc'[t] # pc[t]
       \/ loc'[t].names # loc[t].names
       \/ loc'[t].entries # loc[t].entries

\* C11: deleteDB, getKVDBHandler and loadDBFromFile called with a name that is
\* not tracked return the not-exists error and no other, whatever the handler
\* collection holds and whatever the path is, and their steps leave the handle
\* map, the collection and the engine as they are.
C11_UntrackedIsNotFound ==
    [][\A t \in Threads :
          (/\ call[t].op \in {"delete", "get", "load"}
           /\ pc[t] \notin {"idle", "done"}
           /\ ~existsDB(call[t].name)
           /\ StepOf(t))
              => /\ UNCHANGED <<m_mapCFHandles, m_kvdbHandlerCollection, store, data>>
                 /\ pc'[t] = "done" => res'[t].kind = "not_exists"]_vars

\* C12: initialize() fails fatally when the engine cannot be opened: a manager
\* that holds no open engine is not marked initialized and tracks no name.
C12_OpenFailureIsFatal ==
    ~m_pRocksDB => (~m_isInitialized /\ m_mapCFHandles = EmptyMap)

\* the entries of the document a loadDBFromFile call of t reads
DocOf(t) == IF call[t].path \in DOMAIN Files THEN Files[call[t].path].entries ELSE << >>

\* the first k entries of the document of t read back from the database of t
PrefixWritten(t, k) ==
    \A i \in 1..k :
        LET key == DocOf(t)[i][1]
        IN  /\ key \in DOMAIN data[call[t].name]
            /\ data[call[t].name][key] = Str(DocOf(t)[i][2])

\* a loadDBFromFile call of t in its loop: the entries not yet written are a
\* tail of the document and the entries before them read back
LoadInProgress(t) ==
    (call[t].op = "load" /\ pc[t] = "ld_put") =>
        LET doc == DocOf(t)
            k   == Len(doc) - Len(loc[t].entries)
        IN  /\ k >= 0
            /\ loc[t].entries = SubSeq(doc, k + 1, Len(doc))
            /\ PrefixWritten(t, k)

\* C13: loadDBFromFile on a tracked name with an object document writes the
\* entries one by one in the order of the document, each as the JSON text of
\* its value; with no failing write it returns success and every key reads
\* back; the first failing write returns an error, leaves what was written
\* and writes nothing more; no step of the load changes another database.
C13_LoadWritesInOrder ==
    [][\A t \in threads :
          /\ LoadInProgress(t)'
          /\ (call[t].op = "load" /\ StepOf(t)) =>
                 \A x \in Names \ {call[t].name} : data'[x] = data[x]
          /\ (pc[t] = "ld_put" /\ StepOf(t)) =>
                 \/ /\ loc[t].entries # << >> /\ pc'[t] = "ld_put"
                    /\ loc'[t].entries = Tail(loc[t].entries)
                    /\ data'[call[t].name] =
                           MapPut(data[call[t].name], Head(loc[t].entries)[1],
                                  Str(Head(loc[t].entries)[2]))
                 \/ /\ loc[t].entries # << >> /\ pc'[t] = "done"
                    /\ res'[t].kind = "put_failed"
                    /\ data' = data
                 \/ /\ loc[t].entries = << >> /\ pc'[t] = "done"
                    /\ res'[t].kind = "ok"
                    /\ data' = data
                    /\ PrefixWritten(t, Len(DocOf(t)))]_vars

C13_Witness ==
    /\ Returned("t1", "load") /\ res["t1"].kind = "put_failed"
    /\ call["t1"].name = "m" /\ call["t1"].path = "/ab"
    /\ data["m"] = [k \in {"a"} |-> "\"1\""]
    /\ data["n"] = [k \in {"a", "b"} |-> IF k = "a" THEN "\"2\"" ELSE "1"]

\* the error loadDBFromFile owes a path that cannot be loaded: the path is
\* empty, names no file that opens, holds no JSON document, or holds a
\* document whose root is not an object
InvalidInput(path) ==
    CASE path = "" -> "path_empty"
      [] path # "" /\ path \notin DOMAIN Files -> "open_failed"
      [] path \in DOMAIN Files /\ ~Files[path].parses -> "parse_failed"
      [] path \in DOMAIN Files /\ Files[path].parses /\ ~Files[path].isObject -> "not_object"
      [] OTHER -> "none"

\* C14: loadDBFromFile on a tracked name with an empty path, a file that
\* does not open, a file that does not parse or a document whose root is not
\* an object returns the matching invalid-input error and none of its steps
\* writes to the engine.
C14_InvalidInputWritesNothing ==
    [][\A t \in threads :
          (/\ call[t].op = "load"
           /\ InvalidInput(call[t].path) # "none"
           /\ existsDB(call[t].name)
           /\ StepOf(t))
              => /\ data' = data
                 /\ pc'[t] = "done" => res'[t].kind = InvalidInput(call[t].path)]_vars

C14_Witness ==
    /\ Returned("t1", "load") /\ res["t1"].kind = "not_object"
    /\ call["t1"].name = "n" /\ call["t1"].path = "/array"
    /\ DOMAIN data["n"] = {"a", "b"}

\* C15: when the engine fails the drop of deleteDB(n), deleteDB returns an
\* error that carries the engine status and removes nothing: the handle map,
\* the store and the collection are as before, so a tracked n stays tracked
\* and listed; and with calls that do not overlap n is then still tracked
\* with its live handle, so that getKVDBHandler(n, s) goes on to succeed.
C15_FailedDropKeepsTracked ==
    [][\A t \in Threads :
          /\ (pc[t] = "del_drop" /\ pc'[t] = "done") =>
                 /\ res'[t].kind = "engine"
                 /\ res'[t].status \in {"IOError", "InvalidArgument"}
                 /\ UNCHANGED <<m_mapCFHandles, store, data, m_kvdbHandlerCollection, handlers>>
                 /\ existsDB(call[t].name) => call[t].name \in listDBs'
          /\ (SingleCaller /\ Returned(t, "delete")' /\ res'[t].kind = "engine") =>
                 /\ existsDB(call[t].name)'
                 /\ m_mapCFHandles'[call[t].name] = LiveHandle(call[t].name)
                 /\ call[t].name \in store'
          /\ (/\ SingleCaller /\ call[t].op = "get" /\ pc[t] = "gh_add"
              /\ existsDB(call[t].name) /\ StepOf(t)) =>
                 /\ Returned(t, "get")' /\ res'[t].kind = "handler"
                 /\ \E h \in BagToSet(handlers') : h.cf = LiveHandle(call[t].name)]_vars

C15_Witness ==
    /\ Returned("t1", "delete") /\ call["t1"].name = "n"
    /\ res["t1"].kind = "engine" /\ res["t1"].status = "IOError"
    /\ "n" \in listDBs /\ m_mapCFHandles["n"] = LiveHandle("n") /\ "n" \in store
    /\ "n" \notin DOMAIN m_kvdbHandlerCollection

\* C16: when the engine fails the create of createDB(n), createDB returns an
\* error that carries the engine status and does not track n; when the engine
\* succeeds n is tracked with the new handle; no step of createDB changes the
\* collection or makes a handler.  With calls that do not overlap, n is
\* untracked after the error and tracked after the success.
C16_FailedCreateTracksNothing ==
    [][\A t \in Threads :
          /\ (pc[t] = "cr_create" /\ pc'[t] = "done") =>
                 /\ res'[t].kind = "engine"
                 /\ res'[t].status \in {"IOError", "InvalidArgument"}
                 /\ UNCHANGED <<m_mapCFHandles, store, data>>
          /\ (pc[t] = "cr_create" /\ pc'[t] = "cr_insert") =>
                 /\ call[t].name \in store' \ store
                 /\ loc'[t].cf = LiveHandle(call[t].name)
          /\ (pc[t] = "cr_insert" /\ StepOf(t)) =>
                 /\ Returned(t, "create")' /\ res'[t].kind = "ok"
                 /\ existsDB(call[t].name)'
          /\ (call[t].op = "create" /\ StepOf(t)) =>
                 UNCHANGED <<m_kvdbHandlerCollection, handlers>>
          /\ (SingleCaller /\ Returned(t, "create")') =>
                 IF res'[t].kind = "engine"
                 THEN ~existsDB(call[t].name)'
                 ELSE /\ res'[t].kind = "ok"
                      /\ existsDB(call[t].name)'
                      /\ m_mapCFHandles'[call[t].name] = LiveHandle(call[t].name)]_vars

C16_Witness ==
    /\ Returned("t1", "create") /\ call["t1"].name = "n"
    /\ res["t1"].kind = "engine" /\ res["t1"].status = "IOError"
    /\ ~existsDB("n") /\ "n" \notin store
    /\ m_kvdbHandlerCollection # EmptyMap

\* initialize() returns with the engine open
InitializeReturns == ~m_pRocksDB /\ m_pRocksDB'

\* C17: after a successful initialize() the tracked names are the column
\* families the store held, less the default one, each with the handle the
\* engine opened for it; the handle of the default column family is kept
\* apart from the map, and the default column family is opened, and created
\* in a store that lists none.
C17_InitializeRecoversStore ==
    [][InitializeReturns =>
          /\ m_isInitialized'
          /\ DOMAIN m_mapCFHandles' = store \ {kDefaultColumnFamilyName}
          /\ \A x \in DOMAIN m_mapCFHandles' : m_mapCFHandles'[x] = LiveHandle(x)
          /\ m_pDefaultCFHandle' = LiveHandle(kDefaultColumnFamilyName)
          /\ m_pDefaultCFHandle' \notin Range(m_mapCFHandles')
          /\ store' = store \cup {kDefaultColumnFamilyName}]_vars

C17_Witness ==
    /\ m_isInitialized /\ m_pRocksDB
    /\ \A t \in Threads : Idle(t)
    /\ DOMAIN m_mapCFHandles = {"n", "m"}
    /\ store = Names
    /\ handlers = EmptyBag

\* finalize() returns with the engine closed
FinalizeReturns == m_pRocksDB /\ ~m_pRocksDB'

\* C18: finalize() is a full teardown: when it returns no name is tracked
\* (listDBs is empty, existsDB is false for every name), the engine is closed,
\* the default handle is destroyed and the manager is not initialized; the
\* next initialize() tracks only names the store holds, each with a handle the
\* engine has just opened, and no handle destroyed by finalize is in the map.
C18_FinalizeIsFullTeardown ==
    [][/\ FinalizeReturns =>
             /\ listDBs' = {}
             /\ \A x \in Names : ~existsDB(x)'
             /\ ~m_isInitialized'
             /\ m_pDefaultCFHandle'.st # "live"
       /\ InitializeReturns =>
             \A x \in DOMAIN m_mapCFHandles' :
                 x \in store /\ m_mapCFHandles'[x] = LiveHandle(x)
       /\ \A x \in DOMAIN m_mapCFHandles' : m_mapCFHandles'[x].st # "destroyed"]_vars

C18_Witness ==
    /\ m_isInitialized /\ m_pRocksDB
    /\ \E h \in BagToSet(handlers) : h.cf.st = "destroyed"
    /\ listDBs = {"n"}
    /\ m_mapCFHandles["n"] = LiveHandle("n")

\* no call is in progress
Quiescent == \A t \in Threads : pc[t] \in {"idle", "done"}

\* C19: between initialize() and finalize(), whenever the createDB and
\* deleteDB calls made so far have returned, whatever the engine failed, the
\* tracked names are the non-default column families the engine holds, one
\* live handle each; stated here for the half that createDB and deleteDB
\* alone decide: every non-default column family the engine holds, made by
\* createDB or recovered by initialize(), is tracked with its live handle.
C19_TrackedSetIsEngineSet ==
    (m_isInitialized /\ m_pRocksDB /\ Quiescent) =>
        \A x \in store \ {kDefaultColumnFamilyName} :
            existsDB(x) /\ m_mapCFHandles[x] = LiveHandle(x)

\* C20: every database for which the collection holds a usage entry (a live
\* handler) is tracked by the manager and its column family is in the store;
\* finalize() in particular tears down no column family a live handler uses.
C20_UsedNamespaceIsAlive ==
    \A d \in DOMAIN m_kvdbHandlerCollection :
        /\ existsDB(d)
        /\ d \in store
        /\ \A h \in BagToSet(handlers) : h.db = d => h.cf = LiveHandle(d)

====
